---- MODULE Spec2Model ----
(***************************************************************************)
(* Model of the four Tauri commands of src-tauri/src/main.rs               *)
(* (db_find_items, db_add_item, db_update_item, db_delete_item) running    *)
(* against a MongoDB collection.                                           *)
(*                                                                         *)
(* Strings are sequences of ASCII codes, an ObjectId is a sequence of 12   *)
(* bytes, a BSON value is [t |-> type tag, v |-> sequence of integers]     *)
(* (a Double carries its number as a one-element sequence), and a BSON     *)
(* document is a function from its keys to BSON values.                    *)
(*                                                                         *)
(* db_add_item, db_update_item and db_delete_item make one store call      *)
(* each and are one action each.  db_find_items awaits the store once to   *)
(* open the cursor and once per try_next: FindOpen and TryNext are its     *)
(* steps, and the other commands run between them.                         *)
(*                                                                         *)
(* SpecCalls runs the three writing commands over every argument of        *)
(* IdStrings and Items; Spec runs all four commands, the writes with the   *)
(* arguments of ScanIds and ScanItems.                                     *)
(***************************************************************************)
EXTENDS Integers, Sequences, FiniteSets, TLC

\* ------------------------------------------------------------------ bounds
MaxInserts == 1      \* ObjectIds generated for db_add_item in one run
MaxScanStates == 3   \* distinct contents a collection takes during one scan of it
BatchSize == 2       \* documents the store returns per cursor batch

\* --------------------------------------------------------------- constants
OidBytes == 12       \* bytes of an ObjectId; its hex form has 2 * OidBytes chars

Collections == {"items"}

\* ------------------------------------------------------- results / options
Ok(x) == [ok |-> TRUE, v |-> x, err |-> ""]
Err(e) == [ok |-> FALSE, v |-> <<>>, err |-> e]

None == [some |-> FALSE, v |-> <<>>]
Some(x) == [some |-> TRUE, v |-> x]

\* ------------------------------------------------------------ BSON values
BObjectId(bytes) == [t |-> "ObjectId", v |-> bytes]
BString(s) == [t |-> "String", v |-> s]
BDouble(x) == [t |-> "Double", v |-> <<x>>]

\* Document::remove / Document::insert
DocRemove(doc, k) == [x \in (DOMAIN doc) \ {k} |-> doc[x]]
DocInsert(doc, k, val) == [x \in (DOMAIN doc) \cup {k} |-> IF x = k THEN val ELSE doc[x]]

\* --------------------------------------------------- ObjectId <-> hex text
\* value of one hex character ('0'-'9', 'a'-'f', 'A'-'F'), -1 for any other
HexVal(ch) ==
    IF ch >= 48 /\ ch <= 57 THEN ch - 48
    ELSE IF ch >= 97 /\ ch <= 102 THEN ch - 87
    ELSE IF ch >= 65 /\ ch <= 70 THEN ch - 55
    ELSE -1

\* lower-case hex character of a nibble
HexChar(n) == IF n < 10 THEN 48 + n ELSE 87 + n

\* ObjectId::to_hex
ToHex(bytes) ==
    [i \in 1..(2 * Len(bytes)) |->
        IF i % 2 = 1 THEN HexChar(bytes[(i + 1) \div 2] \div 16)
                     ELSE HexChar(bytes[(i + 1) \div 2] % 16)]

\* ParseStr without the check of the decoded length
ParseStrNoLength(s) ==
    IF Len(s) % 2 # 0 THEN Err("InvalidHexStringLength")
    ELSE IF \E i \in 1..Len(s) : HexVal(s[i]) < 0 THEN Err("InvalidHexStringCharacter")
    ELSE Ok([i \in 1..(Len(s) \div 2) |-> 16 * HexVal(s[2 * i - 1]) + HexVal(s[2 * i])])

\* ObjectId::parse_str
ParseStr(s) ==
    IF Len(s) % 2 # 0 THEN Err("InvalidHexStringLength")
    ELSE IF \E i \in 1..Len(s) : HexVal(s[i]) < 0 THEN Err("InvalidHexStringCharacter")
    ELSE LET bytes == [i \in 1..(Len(s) \div 2) |->
                          16 * HexVal(s[2 * i - 1]) + HexVal(s[2 * i])]
         IN IF Len(bytes) # OidBytes THEN Err("InvalidHexStringLength")
            ELSE Ok(bytes)

\* ------------------------------------------------------------------- Item
\* ToDocument with the name and the description under each other's key
ToDocumentSwapped(item) ==
    LET base == [k \in {"name", "description", "price"} |->
                    IF k = "name" THEN BString(item.description)
                    ELSE IF k = "description" THEN BString(item.name)
                    ELSE BDouble(item.price)]
    IN IF item.id.some THEN DocInsert(base, "_id", BString(item.id.v)) ELSE base

\* bson::to_document(&item): _id is skipped when the id is None
ToDocument(item) ==
    LET base == [k \in {"name", "description", "price"} |->
                    IF k = "name" THEN BString(item.name)
                    ELSE IF k = "description" THEN BString(item.description)
                    ELSE BDouble(item.price)]
    IN IF item.id.some THEN DocInsert(base, "_id", BString(item.id.v)) ELSE base

\* FromDocument with a missing price read as 0 (#[serde(default)])
FromDocumentDefault(doc) ==
    IF "_id" \in DOMAIN doc /\ doc["_id"].t # "String" THEN Err("invalid type")
    ELSE IF ~ ({"name", "description"} \subseteq DOMAIN doc) THEN Err("missing field")
    ELSE IF doc["name"].t # "String" \/ doc["description"].t # "String" THEN Err("invalid type")
    ELSE Ok([id |-> IF "_id" \in DOMAIN doc THEN Some(doc["_id"].v) ELSE None,
             name |-> doc["name"].v,
             description |-> doc["description"].v,
             price |-> IF "price" \in DOMAIN doc /\ doc["price"].t = "Double"
                       THEN doc["price"].v[1] ELSE 0])

\* bson::from_document::<Item>(doc): unknown keys are ignored
FromDocument(doc) ==
    IF "_id" \in DOMAIN doc /\ doc["_id"].t # "String" THEN Err("invalid type")
    ELSE IF ~ ({"name", "description", "price"} \subseteq DOMAIN doc) THEN Err("missing field")
    ELSE IF doc["name"].t # "String" \/ doc["description"].t # "String"
            \/ doc["price"].t # "Double" THEN Err("invalid type")
    ELSE Ok([id |-> IF "_id" \in DOMAIN doc THEN Some(doc["_id"].v) ELSE None,
             name |-> doc["name"].v,
             description |-> doc["description"].v,
             price |-> doc["price"].v[1]])

\* Document::get_object_id(key)
GetObjectId(doc, k) ==
    IF k \notin DOMAIN doc THEN Err("NotPresent")
    ELSE IF doc[k].t # "ObjectId" THEN Err("UnexpectedType")
    ELSE Ok(doc[k].v)

\* ------------------------------------------------------------ input sets
\* ASCII strings used as names and descriptions
StrA == <<97>>
StrB == <<98>>
StrX == <<120>>
StrY == <<121>>

\* ObjectIds of documents that exist before the run
LegacyOid1 == <<90, 171, 205, 239, 1, 35, 69, 103, 137, 0, 0, 1>>
LegacyOid2 == <<90, 171, 205, 239, 1, 35, 69, 103, 137, 0, 0, 2>>

\* ObjectId::new(): 4 bytes of time, 5 random bytes, a 3-byte counter
NewOid(n) == <<101, 79, 16, 42, 222, 173, 190, 239, 7, 0, 0, n>>

\* upper-case form of a hex string
ToUpper(s) == [i \in 1..Len(s) |-> IF s[i] >= 97 /\ s[i] <= 102 THEN s[i] - 32 ELSE s[i]]

\* id arguments a caller may pass to update and delete
IdStrings ==
    { ToHex(LegacyOid1),                       \* 24 lower-case hex characters
      ToUpper(ToHex(LegacyOid1)),              \* 24 upper-case hex characters
      ToHex(NewOid(1)),
      SubSeq(ToHex(LegacyOid1), 1, 23),        \* odd length
      SubSeq(ToHex(LegacyOid1), 1, 22),        \* even length, too short
      [ToHex(LegacyOid1) EXCEPT ![5] = 103] }  \* 24 characters, one is 'g'

\* the id arguments of the writes that run beside a scan
ScanIds == {ToHex(LegacyOid1), ToHex(NewOid(1))}

\* Items a caller may pass to create and update
Items ==
    { [id |-> None, name |-> StrA, description |-> StrX, price |-> 1],
      [id |-> Some(ToHex(LegacyOid2)), name |-> StrB, description |-> StrX, price |-> 1],
      [id |-> Some(StrX), name |-> StrA, description |-> StrY, price |-> 2] }

\* the Items of the writes that run beside a scan
ScanItems ==
    { [id |-> Some(ToHex(LegacyOid2)), name |-> StrB, description |-> StrX, price |-> 1] }

\* outcomes of one store call: the store applies it and replies, or the call
\* fails and the store is left as it was
Outcomes == {"ok", "fail"}

\* the writes that run beside a scan succeed
ScanOutcomes == {"ok"}

\* documents found in a collection before the run: a well-formed one with a
\* field no Item has, one whose _id is a string, one a scan yields without
\* _id, one whose price is a string
WellFormedLegacy ==
    [k \in {"_id", "name", "description", "price", "tag"} |->
        IF k = "_id" THEN BObjectId(LegacyOid1)
        ELSE IF k = "name" THEN BString(StrA)
        ELSE IF k = "description" THEN BString(StrX)
        ELSE IF k = "price" THEN BDouble(1)
        ELSE BString(StrY)]
StringIdDoc == DocInsert(DocRemove(WellFormedLegacy, "tag"), "_id", BString(ToHex(LegacyOid1)))
NoIdDoc == DocRemove(DocRemove(WellFormedLegacy, "tag"), "_id")
BadPriceDoc ==
    DocInsert(DocInsert(DocRemove(WellFormedLegacy, "tag"), "_id", BObjectId(LegacyOid2)),
              "price", BString(StrX))

\* a collection is the sequence of its documents in record-id order
InitCollections ==
    { <<>>,
      << [rid |-> 1, doc |-> WellFormedLegacy],
         [rid |-> 2, doc |-> StringIdDoc],
         [rid |-> 3, doc |-> NoIdDoc] >>,
      << [rid |-> 1, doc |-> BadPriceDoc],
         [rid |-> 2, doc |-> WellFormedLegacy],
         [rid |-> 3, doc |-> StringIdDoc] >> }

\* ------------------------------------------------------------------ state
VARIABLES
    store,       \* collection name -> sequence of [rid, doc]
    nextRid,     \* record id the store gives the next inserted document
    oidCounter,  \* ObjectIds generated so far
    finder,      \* the db_find_items call in progress, or its last result
    last,        \* the command that made the last step: its arguments, the store
                 \* before it, the document it sent to the store, its result
    created,     \* [c, id, item] of creates whose id was not updated or deleted since
    fstart,      \* created, as it was when the current db_find_items started
    fseen        \* contents of the scanned collection at each instant of the scan

vars == <<store, nextRid, oidCounter, finder, last, created, fstart, fseen>>

IdleFinder ==
    [pc |-> "idle", c |-> "items", buffer |-> <<>>, lastRid |-> 0, exhausted |-> FALSE,
     results |-> <<>>, srcs |-> <<>>, failed |-> FALSE, result |-> Err("")]

\* the counts of the store's reply to an update_one or a delete_one
NoReply == [matched_count |-> 0, modified_count |-> 0, deleted_count |-> 0]

NoCall ==
    [op |-> "none", c |-> "items", id |-> <<>>, item |-> CHOOSE i \in Items : TRUE,
     called |-> FALSE, sent |-> <<>>, reply |-> NoReply, result |-> Err(""),
     before |-> [c \in Collections |-> <<>>]]

Init ==
    /\ \E s \in InitCollections : store = [c \in Collections |-> IF c = "items" THEN s ELSE <<>>]
    /\ nextRid = 4
    /\ oidCounter = 0
    /\ finder = IdleFinder
    /\ last = NoCall
    /\ created = {}
    /\ fstart = {}
    /\ fseen = {}

\* ------------------------------------------------------- store primitives
Min(a, b) == IF a < b THEN a ELSE b

\* index of the first document of coll whose _id equals the BSON value id, 0 if none
FindById(coll, id) ==
    LET hits == {i \in 1..Len(coll) : "_id" \in DOMAIN coll[i].doc /\ coll[i].doc["_id"] = id}
    IN IF hits = {} THEN 0 ELSE CHOOSE i \in hits : \A j \in hits : i <= j

\* Collection::insert_one(doc): a document without _id is given the ObjectId
\* oid; the store refuses a duplicate _id
InsertOne(coll, doc, rid, oid) ==
    LET full == IF "_id" \in DOMAIN doc THEN doc ELSE DocInsert(doc, "_id", BObjectId(oid))
    IN IF FindById(coll, full["_id"]) # 0
       THEN [coll |-> coll, inserted_id |-> full["_id"], err |-> TRUE]
       ELSE [coll |-> Append(coll, [rid |-> rid, doc |-> full]),
             inserted_id |-> full["_id"], err |-> FALSE]

\* UpdateOne with the document as a replacement instead of under $set
UpdateOneReplace(coll, id, set) ==
    LET i == FindById(coll, id)
    IN IF i = 0 THEN [coll |-> coll, matched_count |-> 0, modified_count |-> 0, err |-> FALSE]
       ELSE LET old == coll[i].doc
                new == DocInsert(set, "_id", old["_id"])
            IN [coll |-> [coll EXCEPT ![i].doc = new], matched_count |-> 1,
                modified_count |-> IF new = old THEN 0 ELSE 1, err |-> FALSE]

\* Collection::update_one({_id: id}, {$set: set}): the store refuses to change _id
UpdateOne(coll, id, set) ==
    LET i == FindById(coll, id)
    IN IF i = 0 THEN [coll |-> coll, matched_count |-> 0, modified_count |-> 0, err |-> FALSE]
       ELSE IF "_id" \in DOMAIN set /\ set["_id"] # coll[i].doc["_id"]
       THEN [coll |-> coll, matched_count |-> 0, modified_count |-> 0, err |-> TRUE]
       ELSE LET old == coll[i].doc
                new == [k \in (DOMAIN old) \cup (DOMAIN set) |->
                           IF k \in DOMAIN set THEN set[k] ELSE old[k]]
            IN [coll |-> [coll EXCEPT ![i].doc = new], matched_count |-> 1,
                modified_count |-> IF new = old THEN 0 ELSE 1, err |-> FALSE]

\* Collection::delete_one({_id: id})
DeleteOne(coll, id) ==
    LET i == FindById(coll, id)
    IN IF i = 0 THEN [coll |-> coll, deleted_count |-> 0]
       ELSE [coll |-> SubSeq(coll, 1, i - 1) \o SubSeq(coll, i + 1, Len(coll)),
             deleted_count |-> 1]

\* one batch of a collection scan: the next BatchSize documents after record id `after`
NextBatch(coll, after) ==
    LET rest == SelectSeq(coll, LAMBDA e : e.rid > after)
    IN SubSeq(rest, 1, Min(BatchSize, Len(rest)))

\* ------------------------------------------------------- document mapping
\* EncodeForInsert without doc.remove("_id")
EncodeForInsertKeepId(item) == ToDocument(item)

\* db_add_item: to_document, then doc.remove("_id")
EncodeForInsert(item) == DocRemove(ToDocument(item), "_id")

\* db_update_item: to_document, then doc.remove("_id")
EncodeForUpdate(item) == DocRemove(ToDocument(item), "_id")

\* db_add_item: result.inserted_id.as_object_id() -> Ok(id.to_hex()) or Err
InsertedIdResult(inserted_id) ==
    IF inserted_id.t = "ObjectId" THEN Ok(ToHex(inserted_id.v))
    ELSE Err("Failed to get inserted ID")

\* ScanDocument with break for continue when the _id cannot be read
ScanDocumentBreak(f, doc) ==
    LET oid == GetObjectId(doc, "_id")
    IN IF ~ oid.ok THEN [f EXCEPT !.buffer = <<>>, !.exhausted = TRUE]
       ELSE LET id_str == ToHex(oid.v)
                rewritten == DocInsert(DocRemove(doc, "_id"), "_id", BString(id_str))
                item == FromDocument(rewritten)
            IN IF item.ok
               THEN [f EXCEPT !.results = Append(@, item.v), !.srcs = Append(@, doc)]
               ELSE f

\* ScanDocument without doc.insert("_id", id)
ScanDocumentNoId(f, doc) ==
    LET oid == GetObjectId(doc, "_id")
    IN IF ~ oid.ok THEN f
       ELSE LET item == FromDocument(DocRemove(doc, "_id"))
            IN IF item.ok
               THEN [f EXCEPT !.results = Append(@, item.v), !.srcs = Append(@, doc)]
               ELSE f

\* the body of db_find_items' loop for one scanned document: f is the call's
\* state, the decoded Item is pushed or the document is skipped
ScanDocument(f, doc) ==
    LET oid == GetObjectId(doc, "_id")
    IN IF ~ oid.ok THEN f
       ELSE LET id_str == ToHex(oid.v)
                rewritten == DocInsert(DocRemove(doc, "_id"), "_id", BString(id_str))
                item == FromDocument(rewritten)
            IN IF item.ok
               THEN [f EXCEPT !.results = Append(@, item.v), !.srcs = Append(@, doc)]
               ELSE f

\* OnStoreError with the error taken for the end of the scan
\* (while let Ok(Some(result)) = ...)
OnStoreErrorSwallow(f) == [f EXCEPT !.pc = "done", !.buffer = <<>>, !.result = Ok(f.results)]

\* db_find_items: `.map_err(|e| e.to_string())?` on find / try_next; the
\* Items pushed so far are dropped with the call
OnStoreError(f) ==
    [f EXCEPT !.pc = "done", !.buffer = <<>>, !.results = <<>>, !.result = Err("store error")]

\* UpdateResult from the matched count
UpdateResultMatched(r) == Ok(r.matched_count > 0)

\* db_update_item: Ok(result.modified_count > 0)
UpdateResult(r) == Ok(r.modified_count > 0)

\* DeleteResult with >= for >
DeleteResultAlways(r) == Ok(r.deleted_count >= 0)

\* db_delete_item: Ok(result.deleted_count > 0)
DeleteResult(r) == Ok(r.deleted_count > 0)

\* db_find_items: Ok(results) once try_next yields None
OnEndOfScan(f) == [f EXCEPT !.pc = "done", !.buffer = <<>>, !.result = Ok(f.results)]

\* ---------------------------------------------------------------- history
\* a write beside a scan adds the collection's new contents to fseen; the
\* result of a finished db_find_items is kept until the next command
AfterWrite(newStore) ==
    /\ finder' = IF finder.pc = "scan" THEN finder ELSE IdleFinder
    /\ fstart' = IF finder.pc = "scan" THEN fstart ELSE {}
    /\ fseen' = IF finder.pc = "scan" THEN fseen \cup {newStore[finder.c]} ELSE {}

\* at most MaxScanStates contents of a collection are followed during a scan
ScanBound(newStore) ==
    finder.pc = "scan" => Cardinality(fseen \cup {newStore[finder.c]}) <= MaxScanStates

Forget(c, oid) == {e \in created : ~ (e.c = c /\ ParseStr(e.id) = Ok(oid))}

\* ---------------------------------------------------------------- actions
\* #[tauri::command] db_add_item(collection, item)
DbAddItem(c, item, outcome) ==
    /\ oidCounter < MaxInserts
    /\ LET doc == EncodeForInsert(item)
           r == InsertOne(store[c], doc, nextRid, NewOid(oidCounter + 1))
           applied == outcome = "ok" /\ ~ r.err
           newStore == IF applied THEN [store EXCEPT ![c] = r.coll] ELSE store
           result == IF applied THEN InsertedIdResult(r.inserted_id)
                     ELSE Err("Failed to insert document")
       IN /\ ScanBound(newStore)
          /\ store' = newStore
          /\ nextRid' = IF applied THEN nextRid + 1 ELSE nextRid
          /\ oidCounter' = IF "_id" \in DOMAIN doc THEN oidCounter ELSE oidCounter + 1
          /\ last' = [op |-> "add", c |-> c, id |-> <<>>, item |-> item, called |-> TRUE,
                      sent |-> doc, reply |-> NoReply, result |-> result, before |-> store]
          /\ created' = IF result.ok
                        THEN created \cup {[c |-> c, id |-> result.v, item |-> item]}
                        ELSE created
          /\ AfterWrite(newStore)

\* #[tauri::command] db_update_item(collection, id, item)
DbUpdateItem(c, id, item, outcome) ==
    LET object_id == ParseStr(id)
    IN IF ~ object_id.ok
       THEN /\ last' = [op |-> "update", c |-> c, id |-> id, item |-> item, called |-> FALSE,
                        sent |-> <<>>, reply |-> NoReply,
                        result |-> Err("Invalid ObjectId"), before |-> store]
            /\ AfterWrite(store)
            /\ UNCHANGED <<store, nextRid, oidCounter, created>>
       ELSE LET doc == EncodeForUpdate(item)
                r == UpdateOne(store[c], BObjectId(object_id.v), doc)
                applied == outcome = "ok" /\ ~ r.err
                newStore == IF applied THEN [store EXCEPT ![c] = r.coll] ELSE store
            IN /\ ScanBound(newStore)
               /\ store' = newStore
               /\ last' = [op |-> "update", c |-> c, id |-> id, item |-> item,
                           called |-> TRUE, sent |-> doc,
                           reply |-> IF applied
                                     THEN [NoReply EXCEPT
                                             !.matched_count = r.matched_count,
                                             !.modified_count = r.modified_count]
                                     ELSE NoReply,
                           result |-> IF applied THEN UpdateResult(r)
                                      ELSE Err("Failed to update document"),
                           before |-> store]
               /\ created' = Forget(c, object_id.v)
               /\ AfterWrite(newStore)
               /\ UNCHANGED <<nextRid, oidCounter>>

\* #[tauri::command] db_delete_item(collection, id)
DbDeleteItem(c, id, outcome) ==
    LET object_id == ParseStr(id)
    IN IF ~ object_id.ok
       THEN /\ last' = [op |-> "delete", c |-> c, id |-> id, item |-> NoCall.item,
                        called |-> FALSE, sent |-> <<>>, reply |-> NoReply,
                        result |-> Err("Invalid ObjectId"), before |-> store]
            /\ AfterWrite(store)
            /\ UNCHANGED <<store, nextRid, oidCounter, created>>
       ELSE LET r == DeleteOne(store[c], BObjectId(object_id.v))
                applied == outcome = "ok"
                newStore == IF applied THEN [store EXCEPT ![c] = r.coll] ELSE store
            IN /\ ScanBound(newStore)
               /\ store' = newStore
               /\ last' = [op |-> "delete", c |-> c, id |-> id, item |-> NoCall.item,
                           called |-> TRUE, sent |-> <<>>,
                           reply |-> IF applied
                                     THEN [NoReply EXCEPT !.deleted_count = r.deleted_count]
                                     ELSE NoReply,
                           result |-> IF applied THEN DeleteResult(r)
                                      ELSE Err("Failed to delete document"),
                           before |-> store]
               /\ created' = Forget(c, object_id.v)
               /\ AfterWrite(newStore)
               /\ UNCHANGED <<nextRid, oidCounter>>

\* db_find_items up to its first await: target_collection.find(filter).await
FindOpen(c, outcome) ==
    /\ finder.pc \in {"idle", "done"}
    /\ LET fresh == [IdleFinder EXCEPT !.c = c]
           batch == NextBatch(store[c], 0)
           next == IF outcome # "ok" THEN OnStoreError(fresh)
                   ELSE [fresh EXCEPT
                           !.pc = "scan",
                           !.buffer = [i \in 1..Len(batch) |-> batch[i].doc],
                           !.lastRid = IF batch = <<>> THEN 0 ELSE batch[Len(batch)].rid,
                           !.exhausted = Len(batch) < BatchSize]
       IN finder' = [next EXCEPT !.failed = (outcome # "ok")]
    /\ fstart' = created
    /\ fseen' = {store[c]}
    /\ last' = [NoCall EXCEPT !.op = "find"]
    /\ UNCHANGED <<store, nextRid, oidCounter, created>>

\* one turn of `while let Some(result) = cursor.try_next().await ...`: the
\* next buffered document, or the end of the scan, or a fetch of the next batch
TryNext(outcome) ==
    /\ finder.pc = "scan"
    /\ LET fetches == finder.buffer = <<>> /\ ~ finder.exhausted
           batch == NextBatch(store[finder.c], finder.lastRid)
           next ==
             IF finder.buffer # <<>>
             THEN ScanDocument([finder EXCEPT !.buffer = Tail(@)], Head(finder.buffer))
             ELSE IF finder.exhausted THEN OnEndOfScan(finder)
             ELSE IF outcome # "ok" THEN OnStoreError(finder)
             ELSE IF batch = <<>> THEN OnEndOfScan(finder)
             ELSE ScanDocument(
                    [finder EXCEPT
                       !.buffer = [i \in 1..(Len(batch) - 1) |-> batch[i + 1].doc],
                       !.lastRid = batch[Len(batch)].rid,
                       !.exhausted = Len(batch) < BatchSize],
                    batch[1].doc)
       IN finder' = [next EXCEPT !.failed = (fetches /\ outcome # "ok")]
    /\ last' = [NoCall EXCEPT !.op = "find"]
    /\ UNCHANGED <<store, nextRid, oidCounter, created, fstart, fseen>>

\* every command, the writes with the arguments of ScanIds and ScanItems
Next ==
    \/ \E c \in Collections, item \in ScanItems, outcome \in ScanOutcomes :
          DbAddItem(c, item, outcome)
    \/ \E c \in Collections, id \in ScanIds, item \in ScanItems, outcome \in ScanOutcomes :
          DbUpdateItem(c, id, item, outcome)
    \/ \E c \in Collections, id \in ScanIds, outcome \in ScanOutcomes :
          DbDeleteItem(c, id, outcome)
    \/ \E c \in Collections, outcome \in {"ok", "fail"} : FindOpen(c, outcome)
    \/ \E outcome \in {"ok", "fail"} : TryNext(outcome)

Spec == Init /\ [][Next]_vars

\* the three writing commands alone, with every argument of IdStrings and Items
NextCalls ==
    \/ \E c \in Collections, item \in Items, outcome \in Outcomes : DbAddItem(c, item, outcome)
    \/ \E c \in Collections, id \in IdStrings, item \in Items, outcome \in Outcomes :
          DbUpdateItem(c, id, item, outcome)
    \/ \E c \in Collections, id \in IdStrings, outcome \in Outcomes : DbDeleteItem(c, id, outcome)

SpecCalls == Init /\ [][NextCalls]_vars

\* ------------------------------------------------------ claim vocabulary
\* a hexadecimal character, of either case
IsHexChar(ch) == (ch >= 48 /\ ch <= 57) \/ (ch >= 97 /\ ch <= 102) \/ (ch >= 65 /\ ch <= 70)

\* exactly 24 hexadecimal characters
IsHex24(s) == Len(s) = 2 * OidBytes /\ \A i \in 1..Len(s) : IsHexChar(s[i])

\* the stored document has a native identifier and it is the one the text names
HasIdentifier(doc, text) ==
    /\ "_id" \in DOMAIN doc
    /\ doc["_id"].t = "ObjectId"
    /\ ToUpper(ToHex(doc["_id"].v)) = ToUpper(text)

\* positions in coll of the documents the identifier text names
Named(coll, text) == {i \in 1..Len(coll) : HasIdentifier(coll[i].doc, text)}

RecordFields == {"name", "description", "price"}

\* a well-formed document: a native identifier and the three fields of a Record
WellFormed(doc) ==
    /\ "_id" \in DOMAIN doc /\ doc["_id"].t = "ObjectId"
    /\ RecordFields \subseteq DOMAIN doc
    /\ doc["name"].t = "String" /\ doc["description"].t = "String"
    /\ doc["price"].t = "Double"

\* rec is the Record of the well-formed document doc
Decodes(doc, rec) ==
    /\ rec.id.some
    /\ IsHex24(rec.id.v)
    /\ HasIdentifier(doc, rec.id.v)
    /\ rec.name = doc["name"].v
    /\ rec.description = doc["description"].v
    /\ rec.price = doc["price"].v[1]

\* the Records recs are exactly those of the well-formed documents of coll
ListsExactly(coll, recs) ==
    LET wf == {i \in 1..Len(coll) : WellFormed(coll[i].doc)}
    IN /\ Len(recs) = Cardinality(wf)
       /\ \A i \in wf : \E j \in 1..Len(recs) : Decodes(coll[i].doc, recs[j])
       /\ \A j \in 1..Len(recs) : \E i \in wf : Decodes(coll[i].doc, recs[j])

FindReturned == finder.pc = "done"
FindOk == finder.pc = "done" /\ finder.result.ok

\* ------------------------------------------------------------------ claims
\* C2: an id that is not exactly 24 hexadecimal characters makes db_update_item
\* and db_delete_item return the invalid-identifier error without a store call,
\* and no collection changes.
C2_InvalidIdRejected ==
    (last.op \in {"update", "delete"} /\ ~ IsHex24(last.id)) =>
        /\ last.result = Err("Invalid ObjectId")
        /\ ~ last.called
        /\ store = last.before

C2_Witness ==
    /\ last.op = "update"
    /\ Len(last.id) = 2 * OidBytes
    /\ ~ IsHex24(last.id)
    /\ Named(store[last.c], ToHex(LegacyOid1)) # {}
    /\ last.result = Err("Invalid ObjectId")

\* C4: a db_update_item that the store answers returns true iff a document has
\* the identifier and some provided field value differs from the stored one,
\* and that is iff the store's modified count is above zero.
C4_UpdateResult ==
    (last.op = "update" /\ last.called /\ last.result.ok) =>
        LET coll == last.before[last.c]
            hits == Named(coll, last.id)
            set == ToDocument(last.item)
            differs(doc) == \E k \in RecordFields : k \notin DOMAIN doc \/ doc[k] # set[k]
        IN /\ last.result.v = (\E i \in hits : differs(coll[i].doc))
           /\ last.result.v = (last.reply.modified_count > 0)

C4_Witness ==
    /\ last.op = "update" /\ last.called
    /\ last.result = Ok(FALSE)
    /\ last.reply.matched_count = 1
    /\ Named(last.before[last.c], last.id) # {}

\* C9: db_update_item with a valid id inserts nothing, removes nothing and
\* changes no identifier; documents with another identifier are unchanged, and
\* in the matched one only name, description and price are overwritten.
C9_UpdateFrame ==
    (last.op = "update" /\ IsHex24(last.id)) =>
        LET b == last.before[last.c]
            a == store[last.c]
        IN /\ Len(a) = Len(b)
           /\ \A i \in 1..Len(b) :
                /\ a[i].rid = b[i].rid
                /\ ("_id" \in DOMAIN a[i].doc) = ("_id" \in DOMAIN b[i].doc)
                /\ "_id" \in DOMAIN b[i].doc => a[i].doc["_id"] = b[i].doc["_id"]
                /\ i \notin Named(b, last.id) => a[i] = b[i]
                /\ \A k \in (DOMAIN b[i].doc) \ RecordFields :
                      k \in DOMAIN a[i].doc /\ a[i].doc[k] = b[i].doc[k]
                /\ (DOMAIN a[i].doc) \ RecordFields = (DOMAIN b[i].doc) \ RecordFields
                /\ (i \in Named(b, last.id) /\ last.result.ok) =>
                      \A k \in RecordFields : a[i].doc[k] = ToDocument(last.item)[k]

C9_Witness ==
    /\ last.op = "update" /\ last.result = Ok(TRUE)
    /\ last.item.id.some /\ ToUpper(last.item.id.v) # ToUpper(last.id)
    /\ Len(store[last.c]) >= 2
    /\ \E i \in Named(store[last.c], last.id) : "tag" \in DOMAIN store[last.c][i].doc

\* C6: the document db_add_item hands to insert_one has no identifier field,
\* whatever id the caller's Item carries; the stored document's identifier and
\* the returned one are the ObjectId generated for the insert.
C6_CreateDiscardsId ==
    (last.op = "add") =>
        /\ "_id" \notin DOMAIN last.sent
        /\ last.result.ok =>
             LET a == store[last.c]
             IN /\ Len(a) = Len(last.before[last.c]) + 1
                /\ a[Len(a)].doc["_id"] = BObjectId(NewOid(oidCounter))
                /\ IsHex24(last.result.v)
                /\ HasIdentifier(a[Len(a)].doc, last.result.v)

C6_Witness ==
    /\ last.op = "add" /\ last.result.ok
    /\ last.item.id.some /\ IsHex24(last.item.id.v)
    /\ last.result.v # last.item.id.v

SameId(s, t) == ToUpper(s) = ToUpper(t)

\* C5: a db_delete_item that the store answers returns true iff it removed
\* exactly one document, the one with the identifier; it returns true when a
\* document has the identifier, and false, removing nothing, when none has; so
\* a second delete of the same identifier returns false.
C5_DeleteState ==
    (last.op = "delete" /\ last.called /\ last.result.ok) =>
        LET b == last.before[last.c]
            a == store[last.c]
            hits == Named(b, last.id)
        IN /\ last.result.v = (hits # {})
           /\ last.result.v = (Len(b) - Len(a) = 1)
           /\ Named(a, last.id) = {}
           /\ hits = {} => a = b
           /\ \A i \in hits : a = SubSeq(b, 1, i - 1) \o SubSeq(b, i + 1, Len(b))

C5_DeleteTwiceStep ==
    (/\ last.op = "delete" /\ last.result = Ok(TRUE)
     /\ last'.op = "delete" /\ last'.c = last.c /\ SameId(last'.id, last.id)
     /\ last'.result.ok) =>
        (last'.result = Ok(FALSE) /\ store' = store)

\* C5: the result and the effect of every answered delete (C5_DeleteState), and
\* a delete answered true followed by a delete of the same identifier, which
\* is answered false and removes nothing (C5_DeleteTwiceStep).
C5_DeleteTwice == [](C5_DeleteState) /\ [][C5_DeleteTwiceStep]_vars

C5_Witness ==
    /\ last.op = "delete" /\ last.result = Ok(FALSE)
    /\ last.id = ToHex(LegacyOid1)
    /\ nextRid = 4
    /\ Len(store[last.c]) = 2


\* C1: a db_find_items that starts after db_add_item returned Ok(i) and
\* succeeds returns a Record with id i and the name, description and price of
\* the created Item, when no update or delete of i happened since.
C1_CreateThenList ==
    FindOk =>
        \A e \in fstart \cap created :
            e.c = finder.c =>
                \E j \in 1..Len(finder.result.v) :
                    LET rec == finder.result.v[j]
                    IN /\ rec.id = Some(e.id)
                       /\ rec.name = e.item.name
                       /\ rec.description = e.item.description
                       /\ rec.price = e.item.price

C1_Witness ==
    /\ FindOk
    /\ \E e \in fstart \cap created : e.c = finder.c /\ e.item.id.some
    /\ Len(finder.result.v) >= 2

\* C3: a scan without a store error of a collection that no write changes
\* returns exactly the Records of its well-formed documents, whatever number of
\* documents without a usable identifier it holds.
C3_ListSkipsMalformed ==
    (FindOk /\ Cardinality(fseen) = 1) =>
        \A coll \in fseen : ListsExactly(coll, finder.result.v)

C3_Witness ==
    /\ FindOk /\ Cardinality(fseen) = 1
    /\ Len(finder.result.v) >= 1
    /\ \E coll \in fseen :
          /\ \E i \in 1..Len(coll) : "_id" \notin DOMAIN coll[i].doc
          /\ \E i \in 1..Len(coll) :
                "_id" \in DOMAIN coll[i].doc /\ coll[i].doc["_id"].t # "ObjectId"

\* C7: every Record a successful db_find_items returns has an id, and it is
\* the 24-character hexadecimal form of the ObjectId of the document it was
\* decoded from.
C7_ListedIdIsHex ==
    FindOk =>
        /\ Len(finder.srcs) = Len(finder.result.v)
        /\ \A j \in 1..Len(finder.result.v) :
              LET rec == finder.result.v[j]
              IN /\ rec.id.some
                 /\ IsHex24(rec.id.v)
                 /\ HasIdentifier(finder.srcs[j], rec.id.v)

C7_Witness ==
    /\ FindOk
    /\ \E j \in 1..Len(finder.result.v) :
          finder.result.v[j].id = Some(ToHex(NewOid(1)))
    /\ \E j \in 1..Len(finder.result.v) :
          finder.result.v[j].id = Some(ToHex(LegacyOid1))

\* C10: db_find_items returns an error iff opening the scan or fetching from
\* it failed at the store; then it returns no Record; otherwise it returns Ok
\* with the Records it decoded.
C10_ListFailsOnlyOnStoreError ==
    FindReturned =>
        /\ finder.result.ok = ~ finder.failed
        /\ finder.failed => finder.result = Err("store error")
        /\ ~ finder.failed => finder.result = Ok(finder.results)

C10_Witness ==
    /\ FindReturned /\ finder.failed
    /\ Len(finder.srcs) >= 1
    /\ finder.result = Err("store error")

\* C8 as stated: the result of a successful db_find_items is the decodable
\* contents of the collection at one instant between its start and its return.
C8_ListIsSnapshot ==
    FindOk => \E coll \in fseen : ListsExactly(coll, finder.result.v)

\* C8 amended: every Record of a successful db_find_items is the decoding of a
\* document that was in the collection at some instant between the start and
\* the return of the call.
C8_ListedWasStored ==
    FindOk =>
        /\ Len(finder.srcs) = Len(finder.result.v)
        /\ \A j \in 1..Len(finder.result.v) :
              /\ \E coll \in fseen : \E i \in 1..Len(coll) : coll[i].doc = finder.srcs[j]
              /\ WellFormed(finder.srcs[j])
              /\ Decodes(finder.srcs[j], finder.result.v[j])

C8_Witness ==
    /\ FindOk
    /\ Cardinality(fseen) = MaxScanStates
    /\ ~ (\E coll \in fseen : ListsExactly(coll, finder.result.v))
    /\ Len(finder.result.v) >= 2

====
